---- MODULE Spec2Model ----
(***************************************************************************)
(* Model of rf.py: the complaint classification service.                   *)
(*                                                                         *)
(* Strings that the program inspects character by character (complaint     *)
(* texts, keywords, category filters, record ids) are sequences of         *)
(* one-character strings; labels that are only compared for equality       *)
(* (categories, prediction sources) are TLA+ strings.                      *)
(***************************************************************************)
EXTENDS Integers, Sequences, FiniteSets, Bags

VARIABLES
    model,                  \* rf.py global: the classifier artifact is loaded
    tfidf_vectorizer,       \* rf.py global: the vectorizer artifact is loaded
    label_encoder,          \* rf.py global: the label decoder artifact is loaded
    complaints_collection,  \* the stored documents, in insertion order
    pending,                \* bag of the ids of the votes whose update_one has not run yet
    acked,                  \* per stored document: number of "Vote counted" responses sent
    response                \* what the last step sent back to its caller

vars == <<model, tfidf_vectorizer, label_encoder, complaints_collection,
          pending, acked, response>>

(***************************************************************************)
(* Bounds of the model.                                                    *)
(***************************************************************************)
MaxRecords == 2      \* documents stored in a run of Spec and SpecList
MaxSubmitted == 1    \* documents stored in a run of SpecSubmit
MaxVotes == 2        \* vote requests that reach the store, counted or in progress

(***************************************************************************)
(* Program constants.                                                      *)
(***************************************************************************)
MODEL_VERSION == "1.2.0"
MIN_LENGTH == 10
per_page == 20
OBJECTID_LENGTH == 24

None == "<None>"

CATEGORIES ==
  <<"Water Issues", "Road Issues", "Garbage Issues",
    "Electricity", "Drainage Issues", "Other">>

\* The dict keeps insertion order, which is the order of this sequence.
CATEGORY_KEYWORDS ==
  <<
     [category |-> "Water Issues",
      keywords |-> <<<<"w","a","t","e","r">>,
                    <<"d","r","i","n","k","i","n","g">>,
                    <<"s","u","p","p","l","y">>,
                    <<"l","e","a","k">>,
                    <<"p","i","p","e">>,
                    <<"t","a","p">>,
                    <<"s","m","e","l","l">>,
                    <<"t","a","s","t","e">>,
                    <<"p","r","e","s","s","u","r","e">>>>],
     [category |-> "Road Issues",
      keywords |-> <<<<"r","o","a","d">>,
                    <<"p","o","t","h","o","l","e">>,
                    <<"a","s","p","h","a","l","t">>,
                    <<"s","t","r","e","e","t">>,
                    <<"h","i","g","h","w","a","y">>,
                    <<"r","e","p","a","i","r">>,
                    <<"d","a","m","a","g","e">>,
                    <<"c","o","n","s","t","r","u","c","t","i","o","n">>>>],
     [category |-> "Garbage Issues",
      keywords |-> <<<<"g","a","r","b","a","g","e">>,
                    <<"t","r","a","s","h">>,
                    <<"w","a","s","t","e">>,
                    <<"c","o","l","l","e","c","t","i","o","n">>,
                    <<"d","u","m","p">>,
                    <<"b","i","n">>,
                    <<"c","l","e","a","n">>,
                    <<"d","i","s","p","o","s","a","l">>>>],
     [category |-> "Electricity",
      keywords |-> <<<<"e","l","e","c","t","r","i","c","i","t","y">>,
                    <<"p","o","w","e","r">>,
                    <<"o","u","t","a","g","e">>,
                    <<"b","l","a","c","k","o","u","t">>,
                    <<"w","i","r","e">>,
                    <<"t","r","a","n","s","f","o","r","m","e","r">>,
                    <<"v","o","l","t","a","g","e">>,
                    <<"f","l","i","c","k","e","r","i","n","g">>>>],
     [category |-> "Drainage Issues",
      keywords |-> <<<<"d","r","a","i","n","a","g","e">>,
                    <<"s","e","w","e","r">>,
                    <<"f","l","o","o","d">>,
                    <<"w","a","t","e","r","l","o","g","g","i","n","g">>,
                    <<"b","l","o","c","k","a","g","e">>,
                    <<"c","l","o","g">>,
                    <<"o","v","e","r","f","l","o","w">>>>],
     [category |-> "Other",
      keywords |-> <<<<"n","o","i","s","e">>,
                    <<"l","o","u","d","s","p","e","a","k","e","r">>,
                    <<"p","a","r","k">>,
                    <<"t","r","e","e">>,
                    <<"a","n","i","m","a","l">>,
                    <<"s","t","r","a","y">>,
                    <<"p","u","b","l","i","c">>,
                    <<"n","u","i","s","a","n","c","e">>>>]
  >>

\* The characters of each category label, as the store's regex matcher sees them.
CategoryChars ==
  <<
     [category |-> "Water Issues", chars |-> <<"W","a","t","e","r"," ","I","s","s","u","e","s">>],
     [category |-> "Road Issues", chars |-> <<"R","o","a","d"," ","I","s","s","u","e","s">>],
     [category |-> "Garbage Issues", chars |-> <<"G","a","r","b","a","g","e"," ","I","s","s","u","e","s">>],
     [category |-> "Electricity", chars |-> <<"E","l","e","c","t","r","i","c","i","t","y">>],
     [category |-> "Drainage Issues", chars |-> <<"D","r","a","i","n","a","g","e"," ","I","s","s","u","e","s">>],
     [category |-> "Other", chars |-> <<"O","t","h","e","r">>]
  >>

Range(s) == {s[i] : i \in 1..Len(s)}

CategorySet == Range(CATEGORIES)

CharsOf(category) ==
  (CHOOSE e \in Range(CategoryChars) : e.category = category).chars

(***************************************************************************)
(* Characters.  SURROGATE is a lone UTF-16 surrogate, which UTF-8 cannot   *)
(* encode; IDOT is U+0130, whose lowercase form is the two code points     *)
(* "i" and U+0307 (DOTABOVE).                                              *)
(***************************************************************************)
SURROGATE == "<surrogate>"
IDOT == "<I-dot>"
DOTABOVE == "<dot-above>"

UpperLetters ==
  <<"A","B","C","D","E","F","G","H","I","J","K","L","M",
    "N","O","P","Q","R","S","T","U","V","W","X","Y","Z">>
LowerLetters ==
  <<"a","b","c","d","e","f","g","h","i","j","k","l","m",
    "n","o","p","q","r","s","t","u","v","w","x","y","z">>

UpperSet == {UpperLetters[i] : i \in 1..26}

ToLower == [c \in UpperSet |-> LowerLetters[CHOOSE i \in 1..26 : UpperLetters[i] = c]]

\* str.lower() on one character.
LowerChar(c) ==
  IF c = IDOT THEN <<"i", DOTABOVE>>
  ELSE IF c \in UpperSet THEN <<ToLower[c]>> ELSE <<c>>

RECURSIVE LowerFrom(_, _)
LowerFrom(s, i) ==
  IF i > Len(s) THEN <<>> ELSE LowerChar(s[i]) \o LowerFrom(s, i + 1)

\* str.lower()
Lower(s) == LowerFrom(s, 1)

IsSpace(c) == c = " "

RECURSIVE LStrip(_)
LStrip(s) == IF s # <<>> /\ IsSpace(Head(s)) THEN LStrip(Tail(s)) ELSE s

RECURSIVE RStrip(_)
RStrip(s) ==
  IF s # <<>> /\ IsSpace(s[Len(s)]) THEN RStrip(SubSeq(s, 1, Len(s) - 1)) ELSE s

\* str.strip()
Strip(s) == RStrip(LStrip(s))

\* keyword in complaint_text
Contains(s, k) ==
  \E i \in 0..(Len(s) - Len(k)) : \A j \in 1..Len(k) : s[i + j] = k[j]

(***************************************************************************)
(* JSON values of a request body: [type |-> "str", chars |-> ...] or       *)
(* [type |-> "null"].                                                      *)
(***************************************************************************)
JStr(s) == [type |-> "str", chars |-> s]
JNull == [type |-> "null", chars |-> <<>>]

\* str(value)
Str(v) == IF v.type = "str" THEN v.chars ELSE <<"N","o","n","e">>

\* text.encode("utf-8", "replace").decode("utf-8")
sanitize_text(text) ==
  [i \in 1..Len(text) |-> IF text[i] = SURROGATE THEN "?" ELSE text[i]]

AnyKeyword(keywords, text) ==
  \E j \in 1..Len(keywords) : Contains(text, keywords[j])

Matching(text) ==
  {i \in 1..Len(CATEGORY_KEYWORDS) : AnyKeyword(CATEGORY_KEYWORDS[i].keywords, text)}

\* FirstCategory with the last matching category winning.
LastCategory(lowered) ==
  LET hits == Matching(lowered) IN
  IF hits = {} THEN None
  ELSE CATEGORY_KEYWORDS[CHOOSE i \in hits : \A j \in hits : i >= j].category

FirstCategory(lowered) ==
  LET hits == Matching(lowered) IN
  IF hits = {} THEN None
  ELSE CATEGORY_KEYWORDS[CHOOSE i \in hits : \A j \in hits : i <= j].category

manual_category_detection(complaint_text) == FirstCategory(Lower(complaint_text))

\* validate_prediction trusting the decoder.
ValidateNothing(predicted_category, complaint_text) == predicted_category

validate_prediction(predicted_category, complaint_text) ==
  IF predicted_category \in CategorySet THEN predicted_category ELSE "Other"

(***************************************************************************)
(* The store.  A document is a record; insert_one assigns the _id.         *)
(* ObjectIds are 24 hexadecimal digits; the n-th generated one is          *)
(* 00...0n here.  The store is assumed to be reachable: an outage would    *)
(* turn any handler's answer into its generic 500.                         *)
(***************************************************************************)
HexDigits ==
  {"0","1","2","3","4","5","6","7","8","9","a","b","c","d","e","f",
   "A","B","C","D","E","F"}

Digit(n) == <<"1","2","3","4","5","6","7","8","9">>[n]

NewObjectId(n) ==
  [i \in 1..OBJECTID_LENGTH |-> IF i = OBJECTID_LENGTH THEN Digit(n) ELSE "0"]

\* bson.ObjectId(s) accepts a str of 24 hexadecimal digits and raises otherwise.
ObjectIdValid(s) ==
  /\ Len(s) = OBJECTID_LENGTH
  /\ \A i \in 1..Len(s) : s[i] \in HexDigits

Indexes == 1..Len(complaints_collection)

\* insert_one(entry)
InsertOne(collection, entry) ==
  Append(collection,
         [entry EXCEPT !._id = NewObjectId(Len(collection) + 1)])

(***************************************************************************)
(* POST /submit_complaint                                                  *)
(***************************************************************************)
\* What the three artifacts do with a text when they are run: raise, or
\* decode to some label.
MlRaises == [raises |-> TRUE, label |-> ""]
MlLabel(l) == [raises |-> FALSE, label |-> l]

\* model and tfidf_vectorizer and label_encoder
MlAvailable == model /\ tfidf_vectorizer /\ label_encoder

\* "manual" if manual_category else "model"
prediction_source(manual_category) ==
  IF manual_category # None THEN "manual" ELSE "model"

\* TooShort with the floor one character lower.
TooShortOffByOne(complaint_text) == Len(complaint_text) < MIN_LENGTH - 1

\* len(complaint_text) < 10
TooShort(complaint_text) == Len(complaint_text) < MIN_LENGTH

\* data.get("complaint", "")
GetComplaint(body) == IF body.has THEN body.complaint ELSE JStr(<<>>)

raw_complaint(body) == Strip(Str(GetComplaint(body)))

ComplaintText(body) == Lower(sanitize_text(raw_complaint(body)))

(***************************************************************************)
(* Inputs.                                                                 *)
(***************************************************************************)
Words(a, b) == a \o <<" ">> \o b

wWater == <<"W","a","t","e","r">>
wRoad == <<"r","o","a","d">>
wStreet == <<"s","t","r","e","e","t">>
wWaterlogging == <<"w","a","t","e","r","l","o","g","g","i","n","g">>
wNoise == <<"n","o","i","s","e">>
wHello == <<"h","e","l","l","o">>
wThere == <<"t","h","e","r","e">>
wYou == <<"y","o","u">>

Dict(v) == [kind |-> "dict", has |-> TRUE, complaint |-> v]

SubmitBodies ==
  { Dict(JStr(Words(wWater, wRoad))),                  \* two categories, the earlier one first
    Dict(JStr(Words(wRoad, wWater))),                  \* two categories, the earlier one last
    Dict(JStr(Words(wRoad, Words(wStreet, wWater)))),  \* two keywords of the later category
    Dict(JStr(wWaterlogging)),                         \* a keyword inside another category's keyword
    Dict(JStr(Words(wNoise, wRoad))),                  \* "Other" against an earlier category
    Dict(JStr(Words(wRoad, wStreet))),                 \* one category only
    Dict(JStr(Words(wNoise, wNoise))),                 \* one category only: "Other"
    Dict(JStr(wHello \o <<SURROGATE>> \o wThere)),     \* no keyword, 11 characters
    Dict(JStr(Words(wHello, <<"y","o",IDOT>>))),       \* no keyword, 9 characters raw, 10 lowered
    Dict(JStr(Words(wHello, wYou))),                   \* no keyword, 9 characters
    Dict(JStr(<<" "," ">> \o wNoise \o <<" "," "," ">>)), \* 10 characters raw, 5 stripped
    Dict(JStr(wRoad)),                                 \* a keyword, 4 characters
    Dict(JNull),                                       \* "complaint": null
    [kind |-> "dict", has |-> FALSE, complaint |-> JNull],  \* no "complaint" key
    [kind |-> "array", has |-> FALSE, complaint |-> JNull]  \* the body is a JSON array
  }

\* ComplaintText and manual_category_detection over the request bodies of the
\* model, evaluated once.
TextOf == [body \in SubmitBodies |-> ComplaintText(body)]

ManualOf ==
  [text \in {TextOf[body] : body \in SubmitBodies} |-> manual_category_detection(text)]

\* The model branch: transform, predict, inverse_transform, validate_prediction.
ModelBranch(complaint_text, ml) ==
  IF ml.raises
  THEN [raised |-> TRUE, category |-> None,
        calls |-> <<"manual_category_detection", "model">>]
  ELSE [raised |-> FALSE,
        category |-> validate_prediction(ml.label, complaint_text),
        calls |-> <<"manual_category_detection", "model", "validate_prediction">>]

\* The last branch: manual_category_detection(complaint_text) or "Other"
FallbackBranch(complaint_text) ==
  LET again == ManualOf[complaint_text] IN
  [raised |-> FALSE,
   category |-> IF again # None THEN again ELSE "Other",
   calls |-> <<"manual_category_detection", "manual_category_detection">>]

\* Predict asking the model first when it is available.
PredictModelFirst(complaint_text, manual_category, ml) ==
  IF MlAvailable
  THEN ModelBranch(complaint_text, ml)
  ELSE IF manual_category # None
       THEN [raised |-> FALSE, category |-> manual_category,
             calls |-> <<"manual_category_detection">>]
       ELSE FallbackBranch(complaint_text)

\* The if / elif / else that picks predicted_category.
Predict(complaint_text, manual_category, ml) ==
  IF manual_category # None
  THEN [raised |-> FALSE, category |-> manual_category,
        calls |-> <<"manual_category_detection">>]
  ELSE IF MlAvailable
       THEN ModelBranch(complaint_text, ml)
       ELSE FallbackBranch(complaint_text)

complaint_entry(complaint_text, predicted_category, manual_category, now) ==
  [_id |-> <<>>,
   complaint |-> complaint_text,
   category |-> predicted_category,
   timestamp |-> now,
   votes |-> 0,
   prediction_source |-> prediction_source(manual_category),
   model_version |-> MODEL_VERSION]

Reply(op, status, req, out) ==
  [op |-> op, status |-> status, req |-> req, out |-> out]

NoReply == Reply("none", 0, <<>>, <<>>)

submit_complaint(body, now, ml) ==
  /\ UNCHANGED <<model, tfidf_vectorizer, label_encoder, pending>>
  /\ IF body.kind # "dict"
     THEN \* data.get raises AttributeError; the except clause answers 500
          /\ response' = Reply("submit", 500, body, [calls |-> <<>>])
          /\ UNCHANGED <<complaints_collection, acked>>
     ELSE LET complaint_text == TextOf[body] IN
          IF TooShort(complaint_text)
          THEN /\ response' = Reply("submit", 400, body, [calls |-> <<>>])
               /\ UNCHANGED <<complaints_collection, acked>>
          ELSE LET manual_category == ManualOf[complaint_text]
                   p == Predict(complaint_text, manual_category, ml)
               IN  IF p.raised
                   THEN /\ response' = Reply("submit", 500, body, [calls |-> p.calls])
                        /\ UNCHANGED <<complaints_collection, acked>>
                   ELSE /\ complaints_collection' =
                             InsertOne(complaints_collection,
                                       complaint_entry(complaint_text, p.category,
                                                       manual_category, now))
                        /\ acked' = Append(acked, 0)
                        /\ response' =
                             Reply("submit", 200, body,
                                   [category |-> p.category,
                                    auto_corrected |-> manual_category # None,
                                    calls |-> p.calls])

(***************************************************************************)
(* Startup: each artifact is loaded when its file exists, and all three    *)
(* are None when loading raises.                                           *)
(***************************************************************************)
Init ==
  /\ model \in BOOLEAN
  /\ tfidf_vectorizer \in BOOLEAN
  /\ label_encoder \in BOOLEAN
  /\ complaints_collection = <<>>
  /\ pending = EmptyBag
  /\ acked = <<>>
  /\ response = NoReply

(***************************************************************************)
(* POST /vote.  The handler reads nothing from the store before its one    *)
(* update_one, so it is two steps: the request is parsed (vote_request),   *)
(* then update_one runs in the store and the answer is sent (vote_update). *)
(* Steps of different clients interleave.                                  *)
(***************************************************************************)
\* bson.ObjectId(s): the twelve bytes the hexadecimal digits spell.
ObjectId(s) == Lower(s)

\* Inc as {"$set": {"votes": 1}}.
SetToOne(votes) == 1

\* {"$inc": {"votes": 1}}
Inc(votes) == votes + 1

\* UpdateTargets as update_many with no filter would have it.
UpdateAllTargets(collection, oid) ==
  LET found == {i \in 1..Len(collection) : collection[i]._id = oid} IN
  IF found = {} THEN {} ELSE 1..Len(collection)

\* The documents update_one changes: the first one whose _id is oid, if any.
UpdateTargets(collection, oid) ==
  LET found == {i \in 1..Len(collection) : collection[i]._id = oid} IN
  IF found = {} THEN {} ELSE {CHOOSE i \in found : \A j \in found : i <= j}

\* update_one({"_id": oid}, {"$inc": {"votes": 1}})
UpdateOne(collection, oid) ==
  [i \in 1..Len(collection) |->
     IF i \in UpdateTargets(collection, oid)
     THEN [collection[i] EXCEPT !.votes = Inc(@)]
     ELSE collection[i]]

\* data.get("id"); the empty string stands for None as well: both are falsy.
GetId(data) == IF data.has THEN data.id ELSE <<>>

\* not complaint_id
Falsy(complaint_id) == complaint_id = <<>>

vote_request(data) ==
  /\ UNCHANGED <<model, tfidf_vectorizer, label_encoder, complaints_collection, acked>>
  /\ IF data.kind # "dict"
     THEN \* request.json is None: data.get raises, the except clause answers 500
          /\ response' = Reply("vote", 500, <<>>, <<>>)
          /\ UNCHANGED pending
     ELSE LET complaint_id == GetId(data) IN
          IF Falsy(complaint_id)
          THEN /\ response' = Reply("vote", 400, complaint_id, <<>>)
               /\ UNCHANGED pending
          ELSE IF ~ObjectIdValid(complaint_id)
               THEN \* ObjectId raises InvalidId, the except clause answers 500
                    /\ response' = Reply("vote", 500, complaint_id, <<>>)
                    /\ UNCHANGED pending
               ELSE /\ pending' = pending (+) SetToBag({complaint_id})
                    /\ response' = NoReply

vote_update(complaint_id) ==
  /\ BagIn(complaint_id, pending)
  /\ UNCHANGED <<model, tfidf_vectorizer, label_encoder>>
  /\ LET oid == ObjectId(complaint_id)
         modified == UpdateTargets(complaints_collection, oid)
     IN  /\ complaints_collection' = UpdateOne(complaints_collection, oid)
         /\ pending' = pending (-) SetToBag({complaint_id})
         /\ IF Cardinality(modified) = 1
            THEN /\ response' = Reply("vote", 200, complaint_id, <<>>)
                 /\ acked' = [i \in 1..Len(acked) |->
                                IF i \in modified THEN acked[i] + 1 ELSE acked[i]]
            ELSE /\ response' = Reply("vote", 404, complaint_id, <<>>)
                 /\ UNCHANGED acked

(***************************************************************************)
(* GET /get_complaints                                                     *)
(***************************************************************************)
\* The store's regular expressions, for patterns made of literal characters,
\* "." and a postfix "*"; the whole of s must match (the pattern sits between
\* "^" and "$") and letters match in either case (option "i").
RECURSIVE RegexMatch(_, _)
RegexMatch(p, s) ==
  IF p = <<>> THEN s = <<>>
  ELSE LET first == s # <<>> /\ (p[1] = "." \/ LowerChar(p[1]) = LowerChar(s[1])) IN
       IF Len(p) >= 2 /\ p[2] = "*"
       THEN RegexMatch(SubSeq(p, 3, Len(p)), s) \/ (first /\ RegexMatch(p, Tail(s)))
       ELSE first /\ RegexMatch(Tail(p), Tail(s))

All == <<"A","l","l">>

\* query = {} if category == "All" else {"category": {"$regex": f"^{category}$", "$options": "i"}}
QueryMatches(category, doc) ==
  IF category = All THEN TRUE ELSE RegexMatch(category, CharsOf(doc.category))

Find(collection, category) ==
  {i \in 1..Len(collection) : QueryMatches(category, collection[i])}

Injective(s) == \A i, j \in 1..Len(s) : s[i] = s[j] => i = j

\* The orders sort("timestamp", -1) may return the found documents in: the
\* store does not say how it orders documents of equal timestamp.
Sorted(collection, found) ==
  {s \in [1..Cardinality(found) -> found] :
     /\ Injective(s)
     /\ \A i, j \in 1..Len(s) :
          i < j => collection[s[i]].timestamp >= collection[s[j]].timestamp}

Min(a, b) == IF a <= b THEN a ELSE b

\* skip(n).limit(m)
SkipLimit(s, n, m) == SubSeq(s, n + 1, Min(Len(s), n + m))

\* One document of the answer.  The clock of the model ticks in whole seconds,
\* which is what the '%Y-%m-%d %H:%M:%S' format keeps of a timestamp.
Serialize(doc) ==
  [_id |-> doc._id,
   complaint |-> doc.complaint,
   category |-> doc.category,
   votes |-> doc.votes,
   timestamp |-> doc.timestamp,
   prediction_source |-> doc.prediction_source]

\* request.args.get('category', 'All').strip()
GetCategory(args) == Strip(IF args.has_category THEN args.category ELSE All)

DecimalDigits == <<"0","1","2","3","4","5","6","7","8","9">>

IsDigit(c) == \E d \in 1..10 : DecimalDigits[d] = c

DigitValue(c) == (CHOOSE d \in 1..10 : DecimalDigits[d] = c) - 1

RECURSIVE Decimal(_)
Decimal(s) ==
  IF s = <<>> THEN 0 ELSE 10 * Decimal(SubSeq(s, 1, Len(s) - 1)) + DigitValue(s[Len(s)])

Digits(s) == s # <<>> /\ \A i \in 1..Len(s) : IsDigit(s[i])

\* int(s) succeeds on decimal digits with an optional sign
IsInt(s) == Digits(s) \/ (s # <<>> /\ s[1] = "-" /\ Digits(Tail(s)))

Int_(s) == IF s[1] = "-" THEN 0 - Decimal(Tail(s)) ELSE Decimal(s)

\* request.args.get('page', 1)
GetPage(args) == IF args.has_page THEN args.page ELSE <<"1">>

get_complaints(args) ==
  /\ UNCHANGED <<model, tfidf_vectorizer, label_encoder, complaints_collection,
                 pending, acked>>
  /\ LET category == GetCategory(args)
         page == GetPage(args)
     IN  IF ~IsInt(page)
         THEN \* int() raises ValueError
              response' = Reply("list", 500, args, <<>>)
         ELSE IF (Int_(page) - 1) * per_page < 0
         THEN \* skip() raises ValueError
              response' = Reply("list", 500, args, <<>>)
         ELSE LET found == Find(complaints_collection, category) IN
              \E order \in Sorted(complaints_collection, found) :
                 LET complaints == SkipLimit(order, (Int_(page) - 1) * per_page, per_page) IN
                 response' =
                   Reply("list", 200, args,
                         [complaints |-> [k \in 1..Len(complaints) |->
                                            Serialize(complaints_collection[complaints[k]])],
                          total |-> Cardinality(found),
                          page |-> Int_(page),
                          per_page |-> per_page])

\* Labels the decoder may return: two categories, a wrong-case label, a stranger.
DecodedLabels ==
  {"Road Issues", "Other", "water issues", "Spam"}

MlOutcomes == {MlRaises} \cup {MlLabel(l) : l \in DecodedLabels}

\* datetime.utcnow(): two instants, so that documents are stored at the same
\* time and at different times, the later one first or last.
Clock == {1, 2}

SubmitAny ==
  \E body \in SubmitBodies, now \in Clock, ml \in MlOutcomes :
      submit_complaint(body, now, ml)

NextSubmit ==
  Len(complaints_collection) < MaxSubmitted /\ SubmitAny

SpecSubmit == Init /\ [][NextSubmit]_vars

\* Request bodies of Spec and SpecList: one keyword match, one text without
\* keywords, one text under the length floor.
StoreBodies ==
  { Dict(JStr(Words(wRoad, wStreet))),
    Dict(JStr(wHello \o <<SURROGATE>> \o wThere)),
    Dict(JStr(wRoad)) }

StoreMlOutcomes == {MlRaises, MlLabel("Road Issues"), MlLabel("Spam")}

SubmitStore ==
  \E body \in StoreBodies, now \in Clock, ml \in StoreMlOutcomes :
      submit_complaint(body, now, ml)

VoteData(id) == [kind |-> "dict", has |-> TRUE, id |-> id]

VoteBodies ==
  { VoteData(NewObjectId(1)),                       \* the first document, once it is stored
    VoteData(NewObjectId(2)),                       \* the second one: unknown until it is stored
    VoteData(<<"x","y","z">>),                      \* not an ObjectId
    VoteData(<<>>),                                 \* "id": ""
    [kind |-> "dict", has |-> FALSE, id |-> <<>>],  \* no "id" key
    [kind |-> "none", has |-> FALSE, id |-> <<>>]   \* no JSON body
  }

RECURSIVE TotalVotes(_)
TotalVotes(collection) ==
  IF collection = <<>> THEN 0
  ELSE Head(collection).votes + TotalVotes(Tail(collection))

InFlight == BagCardinality(pending)

VoteRequestAny ==
  \E data \in VoteBodies : vote_request(data)

VoteUpdateAny ==
  \E complaint_id \in BagToSet(pending) : vote_update(complaint_id)

Args(has_category, category, has_page, page) ==
  [has_category |-> has_category, category |-> category,
   has_page |-> has_page, page |-> page]

DefaultArgs == Args(FALSE, <<>>, FALSE, <<>>)

ListArgs ==
  { Args(hc, f, hp, pg) :
      hc \in {TRUE}, hp \in {TRUE}, pg \in {<<"0">>, <<"1">>, <<"2">>, <<"-","1">>, <<"x">>},
      f \in { All,
              <<"a","l","l">>,
              <<"o","t","h","e","r">>,
              <<" ","O","t","h","e","r"," ">>,
              <<"R","o","a","d"," ","I","s","s","u","e","s">>,
              <<"O","t","h","e">>,
              <<".","*">>,
              <<"O",".","*">> } }
  \cup {DefaultArgs}

ListDefault == get_complaints(DefaultArgs)

ListAny == \E args \in ListArgs : get_complaints(args)

Next ==
  \/ Len(complaints_collection) < MaxRecords /\ SubmitStore
  \/ TotalVotes(complaints_collection) + InFlight < MaxVotes /\ VoteRequestAny
  \/ VoteUpdateAny
  \/ ListDefault

Spec == Init /\ [][Next]_vars

NextList ==
  \/ Len(complaints_collection) < MaxRecords /\ SubmitStore
  \/ ListAny

SpecList == Init /\ [][NextList]_vars

(***************************************************************************)
(* Properties.                                                             *)
(***************************************************************************)
LastDoc == complaints_collection[Len(complaints_collection)]

\* The last step was a submission whose body is a JSON object.
Submitted == response.op = "submit" /\ response.req.kind = "dict"

\* The last step was a submission whose normalized text passes the length floor.
Accepted == Submitted /\ Len(TextOf[response.req]) >= MIN_LENGTH

\* The categories that have a keyword in the text.
KeywordCategories(text) == {CATEGORY_KEYWORDS[i].category : i \in Matching(text)}

Position(category) == CHOOSE i \in 1..Len(CATEGORIES) : CATEGORIES[i] = category

Earliest(categories) ==
  CHOOSE c \in categories : \A d \in categories : Position(c) <= Position(d)

StoredAs(category) ==
  /\ response.status = 200
  /\ response.out.category = category
  /\ complaints_collection # <<>>
  /\ LastDoc.complaint = TextOf[response.req]
  /\ LastDoc.category = category

\* C1: every stored document's category is one of the six labels, and a text
\* without keywords submitted while the model is unavailable is stored as "Other".
C1_CategoryClosed ==
  /\ \A i \in Indexes : complaints_collection[i].category \in CategorySet
  /\ (Accepted /\ ~MlAvailable /\ KeywordCategories(TextOf[response.req]) = {})
       => StoredAs("Other")

\* The decoder returned a stranger and the document was stored as "Other".
C1_Witness ==
  /\ Accepted
  /\ response.status = 200
  /\ "validate_prediction" \in Range(response.out.calls)
  /\ LastDoc.category = "Other"

\* C2: a text of normalized length >= 10 with keywords of two or more
\* categories is assigned the category that comes first in CATEGORIES.
C2_EarliestWins ==
  (Accepted /\ Cardinality(KeywordCategories(TextOf[response.req])) >= 2)
    => StoredAs(Earliest(KeywordCategories(TextOf[response.req])))

\* "road street Water": the later category has more keywords and comes first in the text.
C2_Witness ==
  /\ Accepted
  /\ response.req = Dict(JStr(Words(wRoad, Words(wStreet, wWater))))
  /\ StoredAs("Water Issues")

\* C3: a text of normalized length >= 10 with keywords of exactly one category
\* is assigned that category with source "manual", and the model is not run.
C3_SingleCategory ==
  (Accepted /\ Cardinality(KeywordCategories(TextOf[response.req])) = 1)
    => /\ StoredAs(Earliest(KeywordCategories(TextOf[response.req])))
       /\ LastDoc.prediction_source = "manual"
       /\ response.out.auto_corrected
       /\ response.out.calls = <<"manual_category_detection">>

\* A one-category text submitted with the three artifacts loaded.
C3_Witness ==
  /\ Accepted
  /\ MlAvailable
  /\ Cardinality(KeywordCategories(TextOf[response.req])) = 1
  /\ response.status = 200

\* C4: a submission whose normalized text is shorter than 10 characters is
\* answered 400 before any classifier stage runs, and stores nothing.
C4_ShortRejected ==
  [][(Submitted' /\ Len(TextOf[response'.req]) < MIN_LENGTH)
       => /\ response'.status = 400
          /\ response'.out.calls = <<>>
          /\ complaints_collection' = complaints_collection]_vars

\* Ten raw characters that strip to the five of a keyword are rejected.
C4_Witness ==
  /\ Submitted
  /\ response.req = Dict(JStr(<<" "," ">> \o wNoise \o <<" "," "," ">>))
  /\ response.status = 400

\* C5: a text of normalized length >= 10 is never answered with a failure,
\* whatever the statistical stage does.
C5_NoFailure ==
  Accepted => response.status = 200 /\ response.out.category \in CategorySet

\* C6: every vote that reaches a stored document is answered "Vote counted",
\* and a document's votes equal the number of such answers.
C6_NoLostVote ==
  /\ \A i \in Indexes : complaints_collection[i].votes = acked[i]
  /\ (/\ response.op = "vote"
      /\ response.status \in {200, 404}
      /\ \E i \in Indexes : complaints_collection[i]._id = ObjectId(response.req))
       => response.status = 200

\* Two votes on one document have been counted.
C6_Witness ==
  /\ response.op = "vote"
  /\ response.status = 200
  /\ \E i \in Indexes : /\ complaints_collection[i]._id = ObjectId(response.req)
                        /\ complaints_collection[i].votes = 2

\* C7: a vote with a non-empty id that identifies no stored document is
\* answered 404.
C7_NotFound ==
  (/\ response.op = "vote"
   /\ response.req # <<>>
   /\ \A i \in Indexes : complaints_collection[i]._id # Lower(response.req))
    => response.status = 404

\* A step leaves document i as it is, but for its votes.
Kept(i) ==
  /\ i \in 1..Len(complaints_collection')
  /\ complaints_collection'[i] =
       [complaints_collection[i] EXCEPT !.votes = complaints_collection'[i].votes]

\* C8: no step deletes a document or changes a field other than votes; votes
\* start at 0 and change only by one, by a vote on the document's own id.
C8_Frame ==
  [][/\ \A i \in Indexes :
          /\ Kept(i)
          /\ complaints_collection'[i].votes >= complaints_collection[i].votes
          /\ complaints_collection'[i].votes # complaints_collection[i].votes
               => /\ complaints_collection'[i].votes = complaints_collection[i].votes + 1
                  /\ response'.op = "vote"
                  /\ response'.status = 200
                  /\ ObjectId(response'.req) = complaints_collection[i]._id
     /\ \A i \in 1..Len(complaints_collection') :
          i \notin Indexes
            => /\ complaints_collection'[i].votes = 0
               /\ response'.op = "submit"
               /\ i = Len(complaints_collection) + 1]_vars

\* Two documents, the first one voted for and the second one not.
C8_Witness ==
  /\ Len(complaints_collection) = 2
  /\ complaints_collection[1].votes = 2
  /\ complaints_collection[2].votes = 0
  /\ response.op = "vote"

\* The documents a filter matches according to the claim: all of them for the
\* match-all filter, else those whose category equals it ignoring case.
ClaimMatches(filter) ==
  {i \in Indexes :
     filter = All \/ Lower(filter) = Lower(CharsOf(complaints_collection[i].category))}

Max(a, b) == IF a >= b THEN a ELSE b

\* C9: a listing returns the documents at positions (p-1)*20+1 .. p*20 of the
\* matching documents in non-increasing timestamp order, and their number.
C9_Listing ==
  (response.op = "list" /\ IsInt(GetPage(response.req)) /\ Int_(GetPage(response.req)) >= 1)
    => LET filter == GetCategory(response.req)
           p == Int_(GetPage(response.req))
           matching == ClaimMatches(filter)
       IN  /\ response.status = 200
           /\ response.out.total = Cardinality(matching)
           /\ \E order \in Sorted(complaints_collection, matching) :
                response.out.complaints =
                  [k \in 1..Max(0, Min(Cardinality(matching), p * per_page) - (p - 1) * per_page) |->
                     Serialize(complaints_collection[order[(p - 1) * per_page + k]])]

\* C10: a stored document's prediction_source is "model" only when the
\* statistical stage was run for it, and "manual" when a keyword decided.
C10_Source ==
  (Accepted /\ response.status = 200)
    => /\ LastDoc.prediction_source = "model" => "model" \in Range(response.out.calls)
       /\ response.out.calls = <<"manual_category_detection">>
            => LastDoc.prediction_source = "manual"
====
